---------------------------- MODULE Spec2Model ----------------------------
(* Model of the IMU visualiser's ingestion-to-render pipeline:             *)
(* IMUVisualiser (imu_visualiser.py) in the UI context, SerialWorker and   *)
(* UdpWorker (connection_workers.py) as background threads, and the queue  *)
(* of signals Qt delivers from the workers to the UI context.              *)
EXTENDS Integers, Sequences, FiniteSets, TLC

(***************************************************************************)
(* Bounds of the model                                                     *)
(***************************************************************************)
MaxWorkers == 1
\* worker threads alive at the same time

MaxUnfinished == 2
\* workers started whose finished signal has not been handled yet

MaxQueue == 1
\* data signals (packets, lines) waiting for the UI context

DeepQueue == 2
\* data signals waiting for the UI context in the runs of SpecDeep

DeepUnfinished == 1
\* workers started whose finished signal has not been handled yet, in the
\* runs of SpecDeep

MaxId == 2
\* largest source id a display slot can exist for

(***************************************************************************)
(* Program constants                                                       *)
(***************************************************************************)
PACKET_SIZE == 17
TIMEOUT == 2

\* the timeouts, in milliseconds, of the wait() calls made in the UI context
SERIAL_STOP_WAIT == 500
UDP_STOP_WAIT == 1500
CLOSE_WAIT == 2000

None == <<>>
Ids == 0..MaxId
WorkerIds == 1..MaxWorkers

(***************************************************************************)
(* Quaternions.  A received quaternion is m * 10^-e with m a tuple of four *)
(* integers; a stored (normalised) quaternion is a tuple of four integers  *)
(* in units of 1/DEN.  The inputs are chosen so that sqrt is exact.  The   *)
(* arithmetic is that of Python floats (IEEE doubles): x**2 raises         *)
(* OverflowError when the square exceeds the largest double, a sum that    *)
(* exceeds it is inf, and a finite number divided by inf is 0.0.           *)
(***************************************************************************)
DEN == 10
Identity == <<DEN, 0, 0, 0>>

RECURSIVE Pow10(_)
Pow10(n) == IF n = 0 THEN 1 ELSE 10 * Pow10(n - 1)

RECURSIVE SqrtFrom(_, _)
SqrtFrom(n, r) == IF (r + 1) * (r + 1) > n THEN r ELSE SqrtFrom(n, r + 1)

Sqrt(n) == SqrtFrom(n, 0)

SumSq(m) == m[1] * m[1] + m[2] * m[2] + m[3] * m[3] + m[4] * m[4]

\* v * 10^k exceeds the largest double, 1.797...e308 (for 0 <= v < 10^7)
FloatOverflow(v, k) ==
    IF k > 308 THEN v > 0
    ELSE IF k >= 306 THEN v * Pow10(k - 306) > 179
    ELSE IF k >= 300 THEN v > 179 * Pow10(306 - k)
    ELSE FALSE

\* one of q0**2 .. q3**2 raises OverflowError
SquareOverflows(q) == \E i \in 1..4 : FloatOverflow(q.m[i] * q.m[i], 0 - 2 * q.e)

\* the squares are finite and their sum is inf
SumOverflows(q) == ~SquareOverflows(q) /\ FloatOverflow(SumSq(q.m), 0 - 2 * q.e)

\* np.sqrt(q0**2 + q1**2 + q2**2 + q3**2), in units of 10^-e, when the sum is finite
Norm(q) == Sqrt(SumSq(q.m))

\* the finite norm in units of 1e-6; for a norm of 1 or more, 10^6 times its
\* mantissa, which is not above it
NormMicro(q) == Norm(q) * Pow10(IF q.e <= 0 THEN 6 ELSE 6 - q.e)

\* a norm test that lets a norm of exactly 1e-6 pass
NormAtLeastEps(q) == SumOverflows(q) \/ NormMicro(q) >= 1

\* norm > 1e-6
NormAboveEps(q) == SumOverflows(q) \/ NormMicro(q) > 1

\* q0 / norm, q1 / norm, q2 / norm, q3 / norm
Normalize(q) ==
    IF SumOverflows(q)
    THEN <<0, 0, 0, 0>>
    ELSE [i \in 1..4 |-> (q.m[i] * DEN) \div Norm(q)]

Q_ONE == [m |-> <<1, 0, 0, 0>>, e |-> 0]
Q_B == [m |-> <<0, 3, 4, 0>>, e |-> 0]
Q_ZERO == [m |-> <<0, 0, 0, 0>>, e |-> 0]
Q_EPS == [m |-> <<1, 0, 0, 0>>, e |-> 6]
Q_2EPS == [m |-> <<0, 0, 2, 0>>, e |-> 6]
Q_HUGE == [m |-> <<13, 13, 0, 0>>, e |-> 0 - 153]
Q_OVER == [m |-> <<1, 0, 0, 0>>, e |-> 0 - 200]

(***************************************************************************)
(* Transport units.  A datagram is its length and, when it is at least     *)
(* PACKET_SIZE long, the id and floats its first PACKET_SIZE bytes hold.   *)
(* A serial record is its comma-separated fields: a field either is the    *)
(* text of a number or is not.                                             *)
(***************************************************************************)
Pkt(len, id, q) == [len |-> len, id |-> id, q |-> q]

Datagrams ==
    { Pkt(17, 0, Q_B), Pkt(17, 0, Q_ONE), Pkt(17, 2, Q_2EPS),
      Pkt(17, 2, Q_ZERO), Pkt(17, 0, Q_EPS),
      Pkt(18, 0, Q_B), Pkt(16, 0, Q_ZERO) }

Num(v) == [num |-> TRUE, v |-> v]
NotANumber == [num |-> FALSE, v |-> 0]

Line(fields, e) == [fields |-> fields, e |-> e]

Lines ==
    { Line(<<Num(0), Num(3), Num(4), Num(0)>>, 0),
      Line(<<Num(1), Num(0), Num(0), Num(0)>>, 0),
      Line(<<Num(0), Num(0), Num(0), Num(0)>>, 0),
      Line(<<Num(1), Num(0), Num(0), Num(0)>>, 6),
      Line(<<Num(13), Num(13), Num(0), Num(0)>>, Q_HUGE.e),
      Line(<<Num(1), Num(0), Num(0), Num(0)>>, Q_OVER.e),
      Line(<<Num(0), Num(3), Num(4)>>, 0),
      Line(<<Num(0), NotANumber, Num(4), Num(0)>>, 0) }

VARIABLES
    connection_worker,          \* 0 (None) or the worker the controller holds
    workers,                    \* the worker objects
    queue,                      \* signals queued for the UI context
    status_indicator,           \* status_indicator._status
    info_label,                 \* info_label text
    connection_timeout_timer,   \* isActive() of the 1 Hz timer
    render_timer,               \* isActive() of the 16 ms timer
    since_last_packet,          \* time.time() - self.last_packet_timestamp, in whole
                                \* seconds; every value above TIMEOUT is kept as TIMEOUT + 1
    imu_data,                   \* id -> stored quaternion, None when absent
    vis_widgets,
    vis_panels,
    new_data_imu_ids,
    test_mode_check,
    port_combo,                 \* currentText() of the port combo box
    imu_count_spinbox,          \* value() of the IMU-count spin box
    spinbox_enabled,
    serial_controls_enabled,
    lastOp,                     \* the handler or step that ran last
    out,                        \* what that handler was given and did
    pending,                    \* id -> the latest valid sample handled since the last render
                                \* tick (None: no sample; Discarded: cleared before the tick)
    after_disconnect,           \* the user has disconnected and not connected since
    since_last_valid,           \* seconds since the later of the last connect and the last
                                \* valid sample handled, kept like since_last_packet
    queue_cap,                  \* the bounds of the run, chosen by Init and never changed
    unfinished_cap

uiVars == <<connection_worker, status_indicator, info_label,
            connection_timeout_timer, render_timer, since_last_packet,
            test_mode_check, port_combo, imu_count_spinbox, spinbox_enabled,
            serial_controls_enabled>>
regVars == <<imu_data, vis_widgets, vis_panels, new_data_imu_ids>>
vars == <<connection_worker, workers, queue, status_indicator, info_label,
          connection_timeout_timer, render_timer, since_last_packet,
          imu_data, vis_widgets, vis_panels, new_data_imu_ids,
          test_mode_check, port_combo, imu_count_spinbox, spinbox_enabled,
          serial_controls_enabled, lastOp, out, pending, after_disconnect, since_last_valid,
          queue_cap, unfinished_cap>>

capVars == <<queue_cap, unfinished_cap>>


(***************************************************************************)
(* Worker threads (QThread): SerialWorker and UdpWorker                    *)
(***************************************************************************)
\* what the last handler was given and did: the transport unit it received,
\* per id the calls it made on that id's 3D consumer, the (parsed flag of the)
\* entries it emitted on log_entry_created, and whether an exception left it
NoCalls == [i \in Ids |-> <<>>]

NoUnit == [none |-> TRUE]

\* wait: the milliseconds the handler may spend in QThread.wait()
EmptyOut == [unit |-> NoUnit, calls |-> NoCalls, log |-> <<>>, raised |-> FALSE, wait |-> 0]

\* the main window has not accepted a close event: app.exec_() is still
\* dispatching events
Alive == lastOp # "close"

\* stop_req records that stop() was called on the thread since start()
IdleWorker == [kind |-> "none", pc |-> "idle", is_running |-> FALSE, handle |-> "none",
               stop_req |-> FALSE]

\* __init__ followed by QThread.start(): the thread exists, run() has not opened anything yet
StartedWorker(kind) == [kind |-> kind, pc |-> "started", is_running |-> FALSE, handle |-> "none",
                        stop_req |-> FALSE]

\* QThread.isRunning(): true from start() until run() has returned
IsRunning(wk) == wk.pc \in {"started", "loop"}

\* SerialWorker.stop / UdpWorker.stop: clears the flag of a running thread.
\* The bounded wait() that follows changes no state of the controller.
StopWorker(wk) ==
    IF IsRunning(wk) THEN [wk EXCEPT !.is_running = FALSE, !.stop_req = TRUE] ELSE wk

\* the timeout of the wait() inside stop(); stop() waits only for a running thread
StopWait(wk) ==
    IF ~IsRunning(wk) THEN 0
    ELSE IF wk.kind = "udp" THEN UDP_STOP_WAIT ELSE SERIAL_STOP_WAIT

\* a queued signal: its kind, for finished the worker that emitted it (0
\* otherwise) and for error_occurred its text (None otherwise)
Msg(type, w, data) == [type |-> type, w |-> w, data |-> data]

DataQueued == Cardinality({i \in DOMAIN queue : queue[i].type \in {"packet", "line"}})

OpenFailMsg(kind) == IF kind = "udp" THEN "Failed to open UDP socket" ELSE "Failed to open port"

\* run(): the transport opens and the running flag is set
WorkerOpen(w) ==
    /\ workers[w].pc = "started"
    /\ workers' = [workers EXCEPT ![w] = [@ EXCEPT !.pc = "loop", !.is_running = TRUE, !.handle = "open"]]
    /\ Alive
    /\ lastOp' = "worker"
    /\ UNCHANGED capVars
    /\ out' = EmptyOut
    /\ UNCHANGED <<queue, uiVars, regVars, pending, after_disconnect, since_last_valid>>

\* a run() that returns on an open failure without emitting error_occurred
WorkerOpenFail_Silent(w) ==
    /\ workers[w].pc = "started"
    /\ workers' = [workers EXCEPT ![w] = IdleWorker]
    /\ queue' = queue \o <<Msg("finished", 0, None)>>
    /\ Alive
    /\ lastOp' = "worker"
    /\ UNCHANGED capVars
    /\ out' = EmptyOut
    /\ UNCHANGED <<uiVars, regVars, pending, after_disconnect, since_last_valid>>

\* the handles run() can hold when it returns on an open failure: none when
\* QSerialPort.open() or socket.socket() failed, the socket when bind() or
\* settimeout() failed (self.sock is set and run() returns without close())
OpenFailHandles(kind) == IF kind = "udp" THEN {"none", "open"} ELSE {"none"}

\* the worker object after run() has returned holding handle h
ExitedWorker(h) == [IdleWorker EXCEPT !.handle = h]

\* run(): open() or socket()/bind() fails; the error is emitted, run() returns
\* and QThread emits finished.  A UDP socket that was created but could not be
\* bound is left as it is, until the worker object is replaced.
WorkerOpenFail(w) ==
    /\ workers[w].pc = "started"
    /\ \E h \in OpenFailHandles(workers[w].kind) :
          workers' = [workers EXCEPT ![w] = ExitedWorker(h)]
    /\ queue' = queue \o <<Msg("error", 0, OpenFailMsg(workers[w].kind)), Msg("finished", 0, None)>>
    /\ Alive
    /\ lastOp' = "worker"
    /\ UNCHANGED capVars
    /\ out' = EmptyOut
    /\ UNCHANGED <<uiVars, regVars, pending, after_disconnect, since_last_valid>>

\* UdpWorker.run loop body: recvfrom returns a datagram, which is emitted.
\* Nothing reads the datagram before its slot runs, so its content is drawn
\* when the slot runs (DeliverPacket).
UdpReceive(w) ==
    /\ workers[w].kind = "udp"
    /\ workers[w].pc = "loop"
    /\ workers[w].is_running
    /\ DataQueued < queue_cap
    /\ queue' = Append(queue, Msg("packet", 0, None))
    /\ Alive
    /\ lastOp' = "recv"
    /\ UNCHANGED capVars
    /\ out' = EmptyOut
    /\ UNCHANGED <<workers, uiVars, regVars, pending, after_disconnect, since_last_valid>>

\* UdpWorker.run loop body: recvfrom returns a datagram of zero bytes; the
\* test `if data:` fails and the loop goes on
UdpReceiveEmpty(w) ==
    /\ workers[w].kind = "udp"
    /\ workers[w].pc = "loop"
    /\ workers[w].is_running
    /\ Alive
    /\ lastOp' = "recv_empty"
    /\ UNCHANGED capVars
    /\ out' = EmptyOut
    /\ UNCHANGED <<workers, queue, uiVars, regVars, pending, after_disconnect,
                   since_last_valid>>

\* UdpWorker.run loop body: recvfrom raises socket.timeout; the loop goes on
UdpRecvTimeout(w) ==
    /\ workers[w].kind = "udp"
    /\ workers[w].pc = "loop"
    /\ workers[w].is_running
    /\ Alive
    /\ lastOp' = "recv_timeout"
    /\ UNCHANGED capVars
    /\ out' = EmptyOut
    /\ UNCHANGED <<workers, queue, uiVars, regVars, pending, after_disconnect,
                   since_last_valid>>

\* UdpWorker.run loop body: recvfrom raises an exception other than
\* socket.timeout; it is printed and the loop goes on
UdpRecvError(w) ==
    /\ workers[w].kind = "udp"
    /\ workers[w].pc = "loop"
    /\ workers[w].is_running
    /\ Alive
    /\ lastOp' = "recv_error"
    /\ UNCHANGED capVars
    /\ out' = EmptyOut
    /\ UNCHANGED <<workers, queue, uiVars, regVars, pending, after_disconnect,
                   since_last_valid>>

\* a loop that marks the record's id in the controller's dirty set itself
\* instead of emitting the record
SerialReadLine_Direct(w) ==
    /\ workers[w].kind = "serial"
    /\ workers[w].pc = "loop"
    /\ workers[w].is_running
    /\ new_data_imu_ids' = new_data_imu_ids \cup {0}
    /\ Alive
    /\ lastOp' = "worker"
    /\ UNCHANGED capVars
    /\ out' = EmptyOut
    /\ UNCHANGED <<workers, queue, uiVars, imu_data, vis_widgets, vis_panels, pending,
                   after_disconnect, since_last_valid>>

\* SerialWorker.run loop body: a complete non-empty record is read and
\* emitted; its content is drawn when the slot runs (DeliverLine)
SerialReadLine(w) ==
    /\ workers[w].kind = "serial"
    /\ workers[w].pc = "loop"
    /\ workers[w].is_running
    /\ DataQueued < queue_cap
    /\ queue' = Append(queue, Msg("line", 0, None))
    /\ Alive
    /\ lastOp' = "worker"
    /\ UNCHANGED capVars
    /\ out' = EmptyOut
    /\ UNCHANGED <<workers, uiVars, regVars, pending, after_disconnect, since_last_valid>>

\* a loop that reports the closed port and goes on with its next iteration
SerialDeviceLost_Retry(w) ==
    /\ workers[w].kind = "serial"
    /\ workers[w].pc = "loop"
    /\ workers[w].is_running
    /\ workers' = workers
    /\ queue' = Append(queue, Msg("error", 0, "Device disconnected."))
    /\ Alive
    /\ lastOp' = "device_lost"
    /\ UNCHANGED capVars
    /\ out' = EmptyOut
    /\ UNCHANGED <<uiVars, regVars, pending, after_disconnect, since_last_valid>>

\* SerialWorker.run loop body: the port is found closed; the error is emitted,
\* the loop is left, run() returns and QThread emits finished
SerialDeviceLost(w) ==
    /\ workers[w].kind = "serial"
    /\ workers[w].pc = "loop"
    /\ workers[w].is_running
    /\ workers' = [workers EXCEPT ![w] = IdleWorker]
    /\ queue' = queue \o <<Msg("error", 0, "Device disconnected."), Msg("finished", 0, None)>>
    /\ Alive
    /\ lastOp' = "device_lost"
    /\ UNCHANGED capVars
    /\ out' = EmptyOut
    /\ UNCHANGED <<uiVars, regVars, pending, after_disconnect, since_last_valid>>

\* run(): the loop sees the cleared flag, closes the transport and returns;
\* QThread emits finished
WorkerStopObserved(w) ==
    /\ workers[w].pc = "loop"
    /\ ~workers[w].is_running
    /\ workers' = [workers EXCEPT ![w] = IdleWorker]
    /\ queue' = Append(queue, Msg("finished", 0, None))
    /\ Alive
    /\ lastOp' = "worker"
    /\ UNCHANGED capVars
    /\ out' = EmptyOut
    /\ UNCHANGED <<uiVars, regVars, pending, after_disconnect, since_last_valid>>

(***************************************************************************)
(* Orientation registry and decoders (IMUVisualiser)                       *)
(***************************************************************************)
Reg(data, widgets, panels) == [data |-> data, widgets |-> widgets, panels |-> panels]

CurrentReg == Reg(imu_data, vis_widgets, vis_panels)

\* clear_imu_widgets
ClearedReg == Reg([i \in Ids |-> None], {}, {})

\* a registration that rebuilds every display slot with the identity orientation
AddNewImu_Rebuild(reg, imu_id) ==
    IF imu_id \in reg.widgets
    THEN reg
    ELSE Reg([j \in Ids |-> IF j = imu_id \/ reg.data[j] # None THEN Identity ELSE None],
             reg.widgets \cup {imu_id},
             reg.panels \cup {imu_id})

\* an add_new_imu that creates nothing for an id at or above the configured count
AddNewImu_Capped(reg, imu_id) ==
    IF imu_id \in reg.widgets \/ imu_id >= imu_count_spinbox
    THEN reg
    ELSE Reg([reg.data EXCEPT ![imu_id] = Identity],
             reg.widgets \cup {imu_id},
             reg.panels \cup {imu_id})

\* a registration that stops after the registry entry: no consumer and no
\* display slot are created
AddNewImu_DataOnly(reg, imu_id) ==
    IF imu_id \in reg.widgets
    THEN reg
    ELSE Reg([reg.data EXCEPT ![imu_id] = Identity], reg.widgets, reg.panels)

\* add_new_imu
AddNewImu(reg, imu_id) ==
    IF imu_id \in reg.widgets
    THEN reg
    ELSE Reg([reg.data EXCEPT ![imu_id] = Identity],
             reg.widgets \cup {imu_id},
             reg.panels \cup {imu_id})

\* a pre-allocation that starts at id 1: range(1, num_imus)
RECURSIVE AddRange_FromOne(_, _)
AddRange_FromOne(reg, n) ==
    IF n <= 1 THEN reg ELSE AddNewImu(AddRange_FromOne(reg, n - 1), n - 1)

\* for i in range(num_imus): self.add_new_imu(i)
RECURSIVE AddRange(_, _)
AddRange(reg, n) == IF n = 0 THEN reg ELSE AddNewImu(AddRange(reg, n - 1), n - 1)

\* result of a decoder: the registry, the dirty set, the log flag, the
\* id and normalised sample that was stored (None when none was) and whether an
\* exception left the handler
Decoded(reg, dirty, parsed, imu_id, sample, raised) ==
    [reg |-> reg, dirty |-> dirty, parsed |-> parsed, imu_id |-> imu_id,
     sample |-> sample, raised |-> raised]

\* a store that keeps the first sample of an id that is already dirty
StoreSampleFirstWins(reg, dirty, imu_id, q, checked) ==
    IF SquareOverflows(q)
    THEN Decoded(reg, dirty, FALSE, imu_id, None, ~checked)
    ELSE IF NormAboveEps(q)
    THEN LET r1 == IF reg.data[imu_id] = None THEN AddNewImu(reg, imu_id) ELSE reg
             kept == IF imu_id \in dirty THEN r1.data[imu_id] ELSE Normalize(q)
         IN  Decoded(Reg([r1.data EXCEPT ![imu_id] = kept], r1.widgets, r1.panels),
                     dirty \cup {imu_id}, TRUE, imu_id, Normalize(q), FALSE)
    ELSE Decoded(reg, dirty, FALSE, imu_id, None, FALSE)

\* a store whose last two setters are lost: Y and Z keep their old values
StoreSampleTorn(reg, dirty, imu_id, q, checked) ==
    IF SquareOverflows(q)
    THEN Decoded(reg, dirty, FALSE, imu_id, None, ~checked)
    ELSE IF NormAboveEps(q)
    THEN LET r1 == IF reg.data[imu_id] = None THEN AddNewImu(reg, imu_id) ELSE reg
             old == r1.data[imu_id]
             new == Normalize(q)
         IN  Decoded(Reg([r1.data EXCEPT ![imu_id] = <<new[1], new[2], old[3], old[4]>>],
                         r1.widgets, r1.panels),
                     dirty \cup {imu_id}, TRUE, imu_id, new, FALSE)
    ELSE Decoded(reg, dirty, FALSE, imu_id, None, FALSE)

\* the path shared by both decoders, from the squares of the norm on
StoreSample(reg, dirty, imu_id, q, checked) ==
    IF SquareOverflows(q)
    THEN Decoded(reg, dirty, FALSE, imu_id, None, ~checked)
    ELSE IF NormAboveEps(q)
    THEN LET r1 == IF reg.data[imu_id] = None THEN AddNewImu(reg, imu_id) ELSE reg
         IN  IF r1.data[imu_id] # None
             THEN Decoded(Reg([r1.data EXCEPT ![imu_id] = Normalize(q)], r1.widgets, r1.panels),
                          dirty \cup {imu_id}, TRUE, imu_id, Normalize(q), FALSE)
             ELSE Decoded(r1, dirty, FALSE, imu_id, None, ~checked)
    ELSE Decoded(reg, dirty, FALSE, imu_id, None, FALSE)

\* a decoder that unpacks the first PACKET_SIZE bytes of a longer buffer
DecodePacketPrefix(reg, dirty, packet) ==
    IF packet.len >= PACKET_SIZE
    THEN StoreSample(reg, dirty, packet.id, packet.q, TRUE)
    ELSE Decoded(reg, dirty, FALSE, 0, None, FALSE)

\* the try block of handle_received_packet
DecodePacket(reg, dirty, packet) ==
    IF packet.len = PACKET_SIZE
    THEN StoreSample(reg, dirty, packet.id, packet.q, TRUE)
    ELSE Decoded(reg, dirty, FALSE, 0, None, FALSE)

AllNumeric(fields) == \A i \in DOMAIN fields : fields[i].num

\* the try block of handle_received_line
DecodeLine(reg, dirty, line) ==
    IF AllNumeric(line.fields) /\ Len(line.fields) = 4
    THEN StoreSample(reg, dirty, 0,
                     [m |-> [i \in 1..4 |-> line.fields[i].v], e |-> line.e], FALSE)
    ELSE Decoded(reg, dirty, FALSE, 0, None, FALSE)

(***************************************************************************)
(* Connection lifecycle controller (IMUVisualiser), in the UI context      *)
(***************************************************************************)
\* self.connection_worker and self.connection_worker.isRunning()
WorkerIsRunning == connection_worker # 0 /\ IsRunning(workers[connection_worker])

\* the wait() made by self.connection_worker.stop() under that guard
StopCallWait == IF WorkerIsRunning THEN StopWait(workers[connection_worker]) ELSE 0

\* self.connection_worker.stop(), guarded as every caller guards it
StopRequested(ws, w) == IF w # 0 THEN [ws EXCEPT ![w] = StopWorker(ws[w])] ELSE ws

\* what is left of a sample that clear_imu_widgets discarded before a render tick
Discarded == <<0>>

\* the samples handled since the last render tick, now that clear_imu_widgets has run
ResetPending == [i \in Ids |-> IF pending[i] = None THEN None ELSE Discarded]

SetReg(reg) ==
    /\ imu_data' = reg.data
    /\ vis_widgets' = reg.widgets
    /\ vis_panels' = reg.panels

\* set_info_label
SetInfoLabel(text, status_type) ==
    /\ info_label' = text
    /\ status_indicator' = status_type

\* first statements of both receive handlers
NoteReceipt ==
    /\ since_last_packet' = 0
    /\ IF status_indicator = "connecting"
       THEN /\ SetInfoLabel("Connected", "ok")
            /\ connection_timeout_timer' = TRUE
       ELSE UNCHANGED <<info_label, status_indicator, connection_timeout_timer>>

\* a receive handler that takes the timestamp only from a unit that decodes
Received_ValidResetsAge(unit, d) ==
    /\ since_last_packet' = IF d.parsed THEN 0 ELSE since_last_packet
    /\ IF status_indicator = "connecting"
       THEN /\ SetInfoLabel("Connected", "ok")
            /\ connection_timeout_timer' = TRUE
       ELSE UNCHANGED <<info_label, status_indicator, connection_timeout_timer>>
    /\ SetReg(d.reg)
    /\ new_data_imu_ids' = d.dirty
    /\ out' = [unit |-> unit, calls |-> NoCalls,
               log |-> IF d.raised THEN <<>> ELSE <<d.parsed>>, raised |-> d.raised, wait |-> 0]
    /\ pending' = IF d.parsed THEN [pending EXCEPT ![d.imu_id] = d.sample] ELSE pending
    /\ UNCHANGED <<connection_worker, render_timer, test_mode_check, port_combo,
                   imu_count_spinbox, spinbox_enabled, serial_controls_enabled,
                   after_disconnect>>
    /\ since_last_valid' = IF d.parsed THEN 0 ELSE since_last_valid

\* a receive handler that stops rendering when a unit fails to decode
Received_FailureStopsRender(unit, d) ==
    /\ NoteReceipt
    /\ SetReg(d.reg)
    /\ new_data_imu_ids' = d.dirty
    /\ out' = [unit |-> unit, calls |-> NoCalls,
               log |-> IF d.raised THEN <<>> ELSE <<d.parsed>>, raised |-> d.raised, wait |-> 0]
    /\ pending' = IF d.parsed THEN [pending EXCEPT ![d.imu_id] = d.sample] ELSE pending
    /\ render_timer' = (d.parsed /\ render_timer)
    /\ UNCHANGED <<connection_worker, test_mode_check, port_combo,
                   imu_count_spinbox, spinbox_enabled, serial_controls_enabled,
                   after_disconnect>>
    /\ since_last_valid' = IF d.parsed THEN 0 ELSE since_last_valid

Received(unit, d) ==
    /\ NoteReceipt
    /\ SetReg(d.reg)
    /\ new_data_imu_ids' = d.dirty
    /\ out' = [unit |-> unit, calls |-> NoCalls,
               log |-> IF d.raised THEN <<>> ELSE <<d.parsed>>, raised |-> d.raised, wait |-> 0]
    /\ pending' = IF d.parsed THEN [pending EXCEPT ![d.imu_id] = d.sample] ELSE pending
    /\ UNCHANGED <<connection_worker, render_timer, test_mode_check, port_combo,
                   imu_count_spinbox, spinbox_enabled, serial_controls_enabled,
                   after_disconnect>>
    /\ since_last_valid' = IF d.parsed THEN 0 ELSE since_last_valid

\* handle_received_packet
handle_received_packet(packet) ==
    /\ Received(packet, DecodePacket(CurrentReg, new_data_imu_ids, packet))
    /\ Alive
    /\ lastOp' = "packet"
    /\ UNCHANGED capVars

\* handle_received_line
handle_received_line(line) ==
    /\ Received(line, DecodeLine(CurrentReg, new_data_imu_ids, line))
    /\ Alive
    /\ lastOp' = "line"
    /\ UNCHANGED capVars

\* an error handler that leaves the worker running
handle_serial_error_NoStop(error_message) ==
    /\ connection_timeout_timer' = FALSE
    /\ render_timer' = FALSE
    /\ SetInfoLabel(error_message, "error")
    /\ workers' = workers

\* handle_serial_error
handle_serial_error(error_message) ==
    /\ connection_timeout_timer' = FALSE
    /\ render_timer' = FALSE
    /\ SetInfoLabel(error_message, "error")
    /\ workers' = IF WorkerIsRunning THEN StopRequested(workers, connection_worker) ELSE workers

\* a watchdog that compares the age with a threshold one second too large
check_connection_timeout_Late ==
    /\ connection_timeout_timer
    /\ IF WorkerIsRunning /\ since_last_packet > TIMEOUT + 1
       THEN handle_serial_error("Connection timed out")
       ELSE UNCHANGED <<connection_timeout_timer, render_timer, info_label,
                        status_indicator, workers>>
    /\ Alive
    /\ lastOp' = "watchdog"
    /\ UNCHANGED capVars
    /\ out' = EmptyOut
    /\ UNCHANGED <<connection_worker, queue, since_last_packet, since_last_valid, regVars,
                   test_mode_check, port_combo, imu_count_spinbox, spinbox_enabled,
                   serial_controls_enabled, pending, after_disconnect>>

\* a watchdog that takes the current time as the new last-sample timestamp
\* whenever it runs
check_connection_timeout_Restamp ==
    /\ connection_timeout_timer
    /\ IF WorkerIsRunning /\ since_last_packet > TIMEOUT
       THEN /\ handle_serial_error("Connection timed out")
            /\ out' = [EmptyOut EXCEPT !.wait = StopCallWait]
       ELSE /\ out' = EmptyOut
            /\ UNCHANGED <<connection_timeout_timer, render_timer, info_label,
                           status_indicator, workers>>
    /\ since_last_packet' = 0
    /\ Alive
    /\ lastOp' = "watchdog"
    /\ UNCHANGED capVars
    /\ UNCHANGED <<connection_worker, queue, since_last_valid, regVars,
                   test_mode_check, port_combo, imu_count_spinbox, spinbox_enabled,
                   serial_controls_enabled, pending, after_disconnect>>

\* check_connection_timeout, the slot of connection_timeout_timer
check_connection_timeout ==
    /\ connection_timeout_timer
    /\ IF WorkerIsRunning /\ since_last_packet > TIMEOUT
       THEN /\ handle_serial_error("Connection timed out")
            /\ out' = [EmptyOut EXCEPT !.wait = StopCallWait]
       ELSE /\ out' = EmptyOut
            /\ UNCHANGED <<connection_timeout_timer, render_timer, info_label,
                           status_indicator, workers>>
    /\ Alive
    /\ lastOp' = "watchdog"
    /\ UNCHANGED capVars
    /\ UNCHANGED <<connection_worker, queue, since_last_packet, since_last_valid, regVars,
                   test_mode_check, port_combo, imu_count_spinbox, spinbox_enabled,
                   serial_controls_enabled, pending, after_disconnect>>

\* bookkeeping that shows "Disconnected" whatever the status was
on_worker_finished_AlwaysDisconnected ==
    /\ connection_timeout_timer' = FALSE
    /\ render_timer' = FALSE
    /\ SetInfoLabel("Disconnected", "error")
    /\ spinbox_enabled' = TRUE
    /\ serial_controls_enabled' = (IF ~test_mode_check THEN TRUE ELSE serial_controls_enabled)
    /\ connection_worker' = 0

\* on_worker_finished
on_worker_finished ==
    /\ connection_timeout_timer' = FALSE
    /\ render_timer' = FALSE
    /\ IF status_indicator # "error"
       THEN SetInfoLabel("Disconnected", "error")
       ELSE UNCHANGED <<info_label, status_indicator>>
    /\ spinbox_enabled' = TRUE
    /\ serial_controls_enabled' = (IF ~test_mode_check THEN TRUE ELSE serial_controls_enabled)
    /\ connection_worker' = 0

\* a render tick that draws the dirty id 0 only and clears every mark
update_gl_and_ui_OnlyFirst ==
    /\ render_timer
    /\ out' = [unit |-> NoUnit,
               calls |-> [i \in Ids |->
                            IF i = 0 /\ i \in new_data_imu_ids /\ i \in vis_widgets
                               /\ imu_data[i] # None
                            THEN <<[call |-> "set_rotation_from_quat", quat |-> imu_data[i]],
                                   [call |-> "render", quat |-> None]>>
                            ELSE <<>>],
               log |-> <<>>, raised |-> FALSE, wait |-> 0]
    /\ new_data_imu_ids' = {}
    /\ pending' = [i \in Ids |-> None]
    /\ Alive
    /\ lastOp' = "render"
    /\ UNCHANGED capVars
    /\ UNCHANGED <<workers, queue, uiVars, imu_data, vis_widgets, vis_panels,
                   after_disconnect, since_last_valid>>

\* a render tick that redraws every registered id, dirty or not
update_gl_and_ui_AllRegistered ==
    /\ render_timer
    /\ out' = [unit |-> NoUnit,
               calls |-> [i \in Ids |->
                            IF i \in vis_widgets /\ imu_data[i] # None
                            THEN <<[call |-> "set_rotation_from_quat", quat |-> imu_data[i]],
                                   [call |-> "render", quat |-> None]>>
                            ELSE <<>>],
               log |-> <<>>, raised |-> FALSE, wait |-> 0]
    /\ new_data_imu_ids' = {}
    /\ pending' = [i \in Ids |-> None]
    /\ Alive
    /\ lastOp' = "render"
    /\ UNCHANGED capVars
    /\ UNCHANGED <<workers, queue, uiVars, imu_data, vis_widgets, vis_panels,
                   after_disconnect, since_last_valid>>

\* update_gl_and_ui, the slot of render_timer
update_gl_and_ui ==
    /\ render_timer
    /\ out' = [unit |-> NoUnit,
               calls |-> [i \in Ids |->
                            IF i \in new_data_imu_ids /\ i \in vis_widgets /\ imu_data[i] # None
                            THEN <<[call |-> "set_rotation_from_quat", quat |-> imu_data[i]],
                                   [call |-> "render", quat |-> None]>>
                            ELSE <<>>],
               log |-> <<>>, raised |-> FALSE, wait |-> 0]
    /\ new_data_imu_ids' = {}
    /\ pending' = [i \in Ids |-> None]
    /\ Alive
    /\ lastOp' = "render"
    /\ UNCHANGED capVars
    /\ UNCHANGED <<workers, queue, uiVars, imu_data, vis_widgets, vis_panels,
                   after_disconnect, since_last_valid>>

\* toggle_connection, the DISCONNECT branch
Disconnect ==
    /\ WorkerIsRunning
    /\ workers' = StopRequested(workers, connection_worker)
    /\ connection_timeout_timer' = FALSE
    /\ render_timer' = FALSE
    /\ SetReg(ClearedReg)
    /\ new_data_imu_ids' = {}
    /\ pending' = ResetPending
    /\ after_disconnect' = TRUE
    /\ out' = [EmptyOut EXCEPT !.wait = StopCallWait]
    /\ UNCHANGED <<connection_worker, queue, since_last_packet, since_last_valid, port_combo,
                   imu_count_spinbox, spinbox_enabled, serial_controls_enabled>>

\* workers started whose finished signal has not been handled yet
Unfinished ==
    Cardinality({w \in WorkerIds : workers[w].pc # "idle"})
    + Cardinality({i \in DOMAIN queue : queue[i].type = "finished"})

\* the least worker slot not in use
FreeWorker == CHOOSE w \in WorkerIds :
                  /\ workers[w].pc = "idle"
                  /\ \A v \in WorkerIds : workers[v].pc = "idle" => w <= v

\* toggle_connection, the CONNECT branch up to the worker's creation
ConnectCommon ==
    /\ ~WorkerIsRunning
    /\ SetReg(AddRange(ClearedReg, imu_count_spinbox))
    /\ new_data_imu_ids' = {}
    /\ pending' = ResetPending
    /\ out' = EmptyOut
    /\ UNCHANGED <<queue, test_mode_check, port_combo, imu_count_spinbox>>

\* a connect that leaves the render timer as it was
Connect_NoRenderTimer ==
    /\ ConnectCommon
    /\ test_mode_check \/ port_combo # ""
    /\ Unfinished < unfinished_cap
    /\ \E w \in WorkerIds : workers[w].pc = "idle"
    /\ connection_worker' = FreeWorker
    /\ workers' = [workers EXCEPT ![FreeWorker] =
                      StartedWorker(IF test_mode_check THEN "udp" ELSE "serial")]
    /\ IF test_mode_check
       THEN /\ SetInfoLabel("Listening (UDP)...", "connecting")
            /\ UNCHANGED serial_controls_enabled
       ELSE /\ SetInfoLabel("Connecting...", "connecting")
            /\ serial_controls_enabled' = FALSE
    /\ spinbox_enabled' = FALSE
    /\ since_last_packet' = 0
    /\ since_last_valid' = 0
    /\ after_disconnect' = FALSE
    /\ UNCHANGED <<connection_timeout_timer, render_timer>>

\* toggle_connection, the CONNECT branch with a worker created and started
Connect ==
    /\ ConnectCommon
    /\ test_mode_check \/ port_combo # ""
    /\ Unfinished < unfinished_cap
    /\ \E w \in WorkerIds : workers[w].pc = "idle"
    /\ connection_worker' = FreeWorker
    /\ workers' = [workers EXCEPT ![FreeWorker] =
                      StartedWorker(IF test_mode_check THEN "udp" ELSE "serial")]
    /\ IF test_mode_check
       THEN /\ SetInfoLabel("Listening (UDP)...", "connecting")
            /\ UNCHANGED serial_controls_enabled
       ELSE /\ SetInfoLabel("Connecting...", "connecting")
            /\ serial_controls_enabled' = FALSE
    /\ spinbox_enabled' = FALSE
    /\ since_last_packet' = 0
    /\ since_last_valid' = 0
    /\ render_timer' = TRUE
    /\ after_disconnect' = FALSE
    /\ UNCHANGED connection_timeout_timer

\* a connect attempt without a port that starts the render timer all the same
ConnectNoPort_StartsRender ==
    /\ ConnectCommon
    /\ ~test_mode_check /\ port_combo = ""
    /\ SetInfoLabel("No port selected!", "error")
    /\ spinbox_enabled' = TRUE
    /\ render_timer' = TRUE
    /\ UNCHANGED <<connection_worker, workers, serial_controls_enabled,
                   since_last_packet, since_last_valid, connection_timeout_timer,
                   after_disconnect>>

\* toggle_connection, the CONNECT branch in serial mode with no port selected
ConnectNoPort ==
    /\ ConnectCommon
    /\ ~test_mode_check /\ port_combo = ""
    /\ SetInfoLabel("No port selected!", "error")
    /\ spinbox_enabled' = TRUE
    /\ UNCHANGED <<connection_worker, workers, serial_controls_enabled,
                   since_last_packet, since_last_valid, render_timer, connection_timeout_timer,
                   after_disconnect>>

\* toggle_connection, the slot of the connect button
toggle_connection ==
    \/ /\ Disconnect
       /\ Alive
       /\ lastOp' = "disconnect"
       /\ UNCHANGED capVars
       /\ UNCHANGED <<info_label, status_indicator, test_mode_check>>
    \/ /\ Connect
       /\ Alive
       /\ lastOp' = "connect"
       /\ UNCHANGED capVars
    \/ /\ ConnectNoPort
       /\ Alive
       /\ lastOp' = "connect_noport"
       /\ UNCHANGED capVars

\* on_test_mode_toggled, the slot of the test-mode check box
on_test_mode_toggled ==
    /\ test_mode_check' = ~test_mode_check
    /\ \/ Disconnect
       \/ /\ ~WorkerIsRunning
          /\ out' = EmptyOut
          /\ UNCHANGED <<workers, connection_timeout_timer, render_timer, regVars, pending,
                         after_disconnect,
                         connection_worker, queue, since_last_packet, since_last_valid, port_combo,
                         imu_count_spinbox, spinbox_enabled, serial_controls_enabled>>
    /\ SetInfoLabel("Disconnected", "error")
    /\ Alive
    /\ lastOp' = "test_mode"
    /\ UNCHANGED capVars

\* a close handler that joins the worker without a timeout: it returns only
\* when no worker thread is running
closeEvent_Join ==
    /\ ~WorkerIsRunning
    /\ render_timer' = FALSE
    /\ connection_timeout_timer' = FALSE
    /\ out' = EmptyOut
    /\ Alive
    /\ lastOp' = "close"
    /\ UNCHANGED capVars
    /\ UNCHANGED <<workers, queue, connection_worker, status_indicator, info_label,
                   since_last_packet, since_last_valid, regVars, test_mode_check, port_combo,
                   imu_count_spinbox, spinbox_enabled, serial_controls_enabled, pending,
                   after_disconnect>>

\* what a thread that returns from run() queues and leaves of its transport:
\* before its loop it returns only when the open failed, from its loop when
\* it saw the cleared flag
ExitSignals(wk) ==
    IF wk.pc = "started"
    THEN <<Msg("error", 0, OpenFailMsg(wk.kind)), Msg("finished", 0, None)>>
    ELSE <<Msg("finished", 0, None)>>

ExitHandles(wk) == IF wk.pc = "started" THEN OpenFailHandles(wk.kind) ELSE {"none"}

\* closeEvent: both timers are stopped; a running worker is asked to stop and
\* waited for, in stop() and then for CLOSE_WAIT; the thread has either
\* returned from run() by then (its signals are queued and never handled) or
\* is left running; the widgets are closed, the preferences
\* saved and the event accepted
closeEvent ==
    /\ render_timer' = FALSE
    /\ connection_timeout_timer' = FALSE
    /\ IF WorkerIsRunning
       THEN /\ out' = [EmptyOut EXCEPT !.wait = StopWait(workers[connection_worker]) + CLOSE_WAIT]
            /\ \/ /\ workers' = StopRequested(workers, connection_worker)
                  /\ queue' = queue
               \/ /\ \E h \in ExitHandles(workers[connection_worker]) :
                        workers' = [workers EXCEPT ![connection_worker] = ExitedWorker(h)]
                  /\ queue' = queue \o ExitSignals(workers[connection_worker])
       ELSE /\ out' = EmptyOut
            /\ UNCHANGED <<workers, queue>>
    /\ Alive
    /\ lastOp' = "close"
    /\ UNCHANGED capVars
    /\ UNCHANGED <<connection_worker, status_indicator, info_label, since_last_packet,
                   since_last_valid, regVars, test_mode_check, port_combo, imu_count_spinbox,
                   spinbox_enabled, serial_controls_enabled, pending, after_disconnect>>

\* refresh_ports: the combo box shows the first available port, or nothing
refresh_ports(p) ==
    /\ serial_controls_enabled
    /\ ~test_mode_check
    /\ p # port_combo
    /\ port_combo' = p
    /\ Alive
    /\ lastOp' = "user_input"
    /\ UNCHANGED capVars
    /\ out' = EmptyOut
    /\ UNCHANGED <<connection_worker, workers, queue, status_indicator, info_label,
                   connection_timeout_timer, render_timer, since_last_packet, since_last_valid,
                   regVars, test_mode_check, imu_count_spinbox, spinbox_enabled,
                   serial_controls_enabled, pending, after_disconnect>>

\* the values the IMU-count spin box can be given: its range from 1 up to
\* one id more than the transport units of the model carry
Counts == 1..(MaxId + 1)

\* the user edits the IMU-count spin box, which is possible while it is
\* enabled; no slot is connected to the edit
SetImuCount(n) ==
    /\ spinbox_enabled
    /\ n # imu_count_spinbox
    /\ imu_count_spinbox' = n
    /\ Alive
    /\ lastOp' = "user_input"
    /\ UNCHANGED capVars
    /\ out' = EmptyOut
    /\ UNCHANGED <<connection_worker, workers, queue, status_indicator, info_label,
                   connection_timeout_timer, render_timer, since_last_packet, since_last_valid,
                   regVars, test_mode_check, port_combo, spinbox_enabled,
                   serial_controls_enabled, pending, after_disconnect>>

\* a second passes
Tick ==
    /\ since_last_packet <= TIMEOUT
    /\ since_last_packet' = since_last_packet + 1
    /\ since_last_valid' = IF since_last_valid <= TIMEOUT THEN since_last_valid + 1 ELSE since_last_valid
    /\ Alive
    /\ lastOp' = "clock"
    /\ UNCHANGED capVars
    /\ out' = EmptyOut
    /\ UNCHANGED <<workers, queue, connection_worker, status_indicator, info_label,
                   connection_timeout_timer, render_timer, test_mode_check, port_combo,
                   imu_count_spinbox, spinbox_enabled, serial_controls_enabled,
                   regVars, pending, after_disconnect>>

(***************************************************************************)
(* Delivery of the queued signals to their slots                           *)
(***************************************************************************)
Head_is(type) == queue # <<>> /\ Head(queue).type = type

DeliverPacket ==
    /\ Head_is("packet")
    /\ queue' = Tail(queue)
    /\ \E packet \in Datagrams : handle_received_packet(packet)
    /\ UNCHANGED workers

DeliverLine ==
    /\ Head_is("line")
    /\ queue' = Tail(queue)
    /\ \E line \in Lines : handle_received_line(line)
    /\ UNCHANGED workers

\* an error slot that also discards the registry, as a disconnect does
DeliverError_ClearsRegistry ==
    /\ Head_is("error")
    /\ queue' = Tail(queue)
    /\ handle_serial_error(Head(queue).data)
    /\ Alive
    /\ lastOp' = "error"
    /\ UNCHANGED capVars
    /\ out' = [EmptyOut EXCEPT !.wait = StopCallWait]
    /\ UNCHANGED <<connection_worker, since_last_packet, since_last_valid,
                   test_mode_check, port_combo, imu_count_spinbox, spinbox_enabled,
                   serial_controls_enabled, after_disconnect>>
    /\ SetReg(ClearedReg)
    /\ new_data_imu_ids' = {}
    /\ pending' = ResetPending

\* the slot of error_occurred
DeliverError ==
    /\ Head_is("error")
    /\ queue' = Tail(queue)
    /\ handle_serial_error(Head(queue).data)
    /\ Alive
    /\ lastOp' = "error"
    /\ UNCHANGED capVars
    /\ out' = [EmptyOut EXCEPT !.wait = StopCallWait]
    /\ UNCHANGED <<connection_worker, since_last_packet, since_last_valid, regVars,
                   test_mode_check, port_combo, imu_count_spinbox, spinbox_enabled,
                   serial_controls_enabled, pending, after_disconnect>>

DeliverFinished ==
    /\ Head_is("finished")
    /\ queue' = Tail(queue)
    /\ on_worker_finished
    /\ Alive
    /\ lastOp' = "finished"
    /\ UNCHANGED capVars
    /\ UNCHANGED workers
    /\ out' = EmptyOut
    /\ UNCHANGED <<since_last_packet, since_last_valid, regVars, test_mode_check, port_combo,
                   imu_count_spinbox, pending, after_disconnect>>

Ports == {"", "ttyUSB0"}

\* the state after IMUVisualiser.__init__, whatever the bounds of the run
Start ==
    /\ connection_worker = 0
    /\ workers = [w \in WorkerIds |-> IdleWorker]
    /\ queue = <<>>
    /\ status_indicator = "error"
    /\ info_label = ""
    /\ connection_timeout_timer = FALSE
    /\ render_timer = FALSE
    /\ since_last_packet = TIMEOUT + 1
    /\ since_last_valid = TIMEOUT + 1
    /\ imu_data = [i \in Ids |-> None]
    /\ vis_widgets = {}
    /\ vis_panels = {}
    /\ new_data_imu_ids = {}
    /\ test_mode_check = FALSE
    /\ port_combo \in Ports
    /\ imu_count_spinbox = 2
    /\ spinbox_enabled = TRUE
    /\ serial_controls_enabled = TRUE
    /\ lastOp = "init"
    /\ out = EmptyOut
    /\ pending = [i \in Ids |-> None]
    /\ after_disconnect = FALSE

Init ==
    /\ Start
    /\ queue_cap = MaxQueue
    /\ unfinished_cap = MaxUnfinished

\* the same program with a deeper signal queue and no reconnect before the
\* finished signal of the earlier worker has been handled
InitDeep ==
    /\ Start
    /\ queue_cap = DeepQueue
    /\ unfinished_cap = DeepUnfinished

Next ==
    \/ toggle_connection
    \/ on_test_mode_toggled
    \/ \E p \in Ports : refresh_ports(p)
    \/ closeEvent
    \/ check_connection_timeout
    \/ update_gl_and_ui
    \/ DeliverPacket
    \/ DeliverLine
    \/ DeliverError
    \/ DeliverFinished
    \/ Tick
    \/ \E w \in WorkerIds : WorkerOpen(w)
    \/ \E w \in WorkerIds : WorkerOpenFail(w)
    \/ \E w \in WorkerIds : UdpReceive(w)
    \/ \E w \in WorkerIds : UdpReceiveEmpty(w)
    \/ \E w \in WorkerIds : UdpRecvTimeout(w)
    \/ \E w \in WorkerIds : UdpRecvError(w)
    \/ \E w \in WorkerIds : SerialReadLine(w)
    \/ \E w \in WorkerIds : SerialDeviceLost(w)
    \/ \E w \in WorkerIds : WorkerStopObserved(w)

Spec == Init /\ [][Next]_vars

SpecDeep == InitDeep /\ [][Next]_vars

\* the same program with the IMU-count spin box edited by the user, and no
\* reconnect before the finished signal of the earlier worker has been handled
InitCounts ==
    /\ Start
    /\ queue_cap = MaxQueue
    /\ unfinished_cap = DeepUnfinished

NextCounts ==
    \/ Next
    \/ \E n \in Counts : SetImuCount(n)

SpecCounts == InitCounts /\ [][NextCounts]_vars

(***************************************************************************)
(* Properties                                                              *)
(***************************************************************************)
\* the consumer calls one render tick makes for a dirty id
SetAndRender(q) == <<[call |-> "set_rotation_from_quat", quat |-> q],
                     [call |-> "render", quat |-> None]>>

\* C1 as stated: whatever happened since the previous render tick, the tick
\* makes exactly one set-orientation call and one render() call for every id
\* that had a valid sample handled since then, with the most recent sample.
C1_EveryPendingSampleRendered ==
    [][lastOp' = "render" =>
          \A i \in Ids : pending[i] # None => out'.calls[i] = SetAndRender(pending[i])]_vars

\* C1 amended: a render tick makes exactly one set-orientation call and one
\* render() call, with the most recent sample, for every id that had a valid
\* sample handled since the previous tick and not discarded by a connect or
\* disconnect (clear_imu_widgets) in between.
C1_Conflation ==
    [][lastOp' = "render" =>
          \A i \in Ids : (pending[i] # None /\ pending[i] # Discarded)
                             => out'.calls[i] = SetAndRender(pending[i])]_vars

C1_Witness == lastOp = "render" /\ out.calls[0] = SetAndRender(Normalize(Q_B))


\* a received unit that the decoder accepted
Accepted(o) == o.log = <<TRUE>>

\* C2: the status leaves Connecting for Connected only in a receive handler
\* whose unit decoded to a valid sample; a unit that fails to decode while
\* Connecting leaves the status Connecting and the watchdog timer as it was.
C2_ConnectedOnlyOnValidSample ==
    [][/\ (status_indicator = "connecting" /\ status_indicator' = "ok")
            => (lastOp' \in {"packet", "line"} /\ Accepted(out'))
       /\ (status_indicator = "connecting" /\ lastOp' \in {"packet", "line"} /\ ~Accepted(out'))
            => (/\ status_indicator' = "connecting"
                /\ connection_timeout_timer' = connection_timeout_timer)]_vars


\* C3: when the watchdog check runs in a Connected session whose worker is
\* running and whose last unit is more than TIMEOUT seconds old, it moves the
\* status to Error with the timeout message, stops the render timer and the
\* watchdog timer and clears the worker's running flag (the stop request).
C3_WatchdogFires ==
    [][(/\ lastOp' = "watchdog"
        /\ status_indicator = "ok"
        /\ WorkerIsRunning
        /\ since_last_packet > TIMEOUT)
          => (/\ status_indicator' = "error"
              /\ info_label' = "Connection timed out"
              /\ ~render_timer'
              /\ ~connection_timeout_timer'
              /\ ~workers'[connection_worker].is_running)]_vars

C3_Witness ==
    /\ lastOp = "watchdog"
    /\ info_label = "Connection timed out"
    /\ connection_worker # 0
    /\ workers[connection_worker].pc = "loop"
    /\ ~workers[connection_worker].is_running

\* the status is Error and the label shows an error message
ErrorShown == status_indicator = "error" /\ info_label \notin {"", "Disconnected"}

\* the handlers of the user's actions
UserOps == {"connect", "connect_noport", "disconnect", "test_mode", "user_input"}

\* C4: once the status is Error with an error message, no received line or
\* packet, no watchdog or render tick and no worker-finished bookkeeping
\* changes the status or the message; only a user action moves the status
\* away from Error or replaces the message with "Disconnected".
C4_ErrorSticky ==
    [][/\ (ErrorShown /\ lastOp' \in {"packet", "line", "watchdog", "render", "finished"})
            => (status_indicator' = "error" /\ info_label' = info_label)
       /\ (ErrorShown /\ (status_indicator' # "error" \/ info_label' = "Disconnected"))
            => lastOp' \in UserOps]_vars

C4_Witness ==
    /\ lastOp = "finished"
    /\ status_indicator = "error"
    /\ info_label = "Connection timed out"

\* C5: at most one worker thread is running, and every running worker is the
\* one the controller's connection_worker designates.
C5_SingleOwnedWorker ==
    /\ Cardinality({w \in WorkerIds : IsRunning(workers[w])}) <= 1
    /\ \A w \in WorkerIds : IsRunning(workers[w]) => connection_worker = w


\* C6: after a user disconnect and until the next connect, the watchdog
\* timer and the render timer are stopped.
C6_TimersStayStopped ==
    after_disconnect => (~connection_timeout_timer /\ ~render_timer)

\* C7: whenever an error_occurred signal of a worker is handled, whatever the
\* status, the label shows its message with status Error, the render timer
\* and the watchdog timer are stopped, and the controller's worker, if it is
\* running, has its running flag cleared (the stop request).
C7_FatalLinkError ==
    [][lastOp' = "error"
          => (/\ status_indicator' = "error"
              /\ info_label' = Head(queue).data
              /\ ~render_timer'
              /\ ~connection_timeout_timer'
              /\ WorkerIsRunning => ~workers'[connection_worker].is_running)]_vars

C7_Witness ==
    /\ lastOp = "error"
    /\ info_label = "Failed to open port"
    /\ WorkerIsRunning
    /\ ~workers[connection_worker].is_running

\* C8 as stated: immediately after a successful connect request the status
\* is Connecting, the worker is running and both timers are active.
C8_ConnectArmsAllThree ==
    lastOp = "connect"
        => (/\ status_indicator = "connecting"
            /\ WorkerIsRunning
            /\ connection_timeout_timer
            /\ render_timer)

\* C8 amended: a successful connect request moves the status to Connecting,
\* starts the worker and the render timer and resets the age of the last
\* unit, but leaves the watchdog timer as it was; the watchdog timer is
\* started only by a receive handler that finds the status Connecting.
C8_ConnectStartsWorkerAndRender ==
    [][/\ lastOp' = "connect"
            => (/\ status_indicator' = "connecting"
                /\ connection_worker' # 0
                /\ IsRunning(workers'[connection_worker'])
                /\ render_timer'
                /\ since_last_packet' = 0
                /\ connection_timeout_timer' = connection_timeout_timer)
       /\ (~connection_timeout_timer /\ connection_timeout_timer')
            => (lastOp' \in {"packet", "line"} /\ status_indicator = "connecting")]_vars

C8_Witness ==
    /\ lastOp = "connect"
    /\ status_indicator = "connecting"
    /\ WorkerIsRunning
    /\ render_timer
    /\ ~connection_timeout_timer

\* a quaternion whose norm is at most 1e-6
TinyNorm(q) == SumSq(q.m) = 0 \/ (q.e >= 6 /\ SumSq(q.m) <= Pow10(2 * (q.e - 6)))

\* the quaternion a record of four numeric fields holds
LineQuat(line) == [m |-> [i \in 1..4 |-> line.fields[i].v], e |-> line.e]

\* the unit handled by the last step is a well-formed record of norm <= 1e-6
ZeroNormUnit(op, unit) ==
    \/ op = "packet" /\ unit.len = PACKET_SIZE /\ TinyNorm(unit.q)
    \/ /\ op = "line"
       /\ Len(unit.fields) = 4
       /\ \A i \in 1..4 : unit.fields[i].num
       /\ TinyNorm(LineQuat(unit))

\* C9: handling a binary or ASCII record whose quaternion norm is <= 1e-6
\* leaves the registry, the display slots and the dirty set unchanged (no
\* entry is created for an unseen id) and emits one log entry, parsed=false.
C9_ZeroNormRejected ==
    [][ZeroNormUnit(lastOp', out'.unit)
          => (UNCHANGED regVars /\ out'.log = <<FALSE>>)]_vars

C9_Witness ==
    /\ lastOp = "packet"
    /\ out.unit = Pkt(PACKET_SIZE, 2, Q_ZERO)
    /\ out.log = <<FALSE>>
    /\ imu_data[2] = None
    /\ connection_worker # 0

\* C10: handling a datagram whose length is not PACKET_SIZE raises nothing,
\* leaves the registry and the dirty set unchanged and emits one log entry
\* with parsed=false.
C10_WrongLengthRejected ==
    [][(lastOp' = "packet" /\ out'.unit.len # PACKET_SIZE)
          => (UNCHANGED regVars /\ out'.log = <<FALSE>> /\ ~out'.raised)]_vars

C10_Witness ==
    /\ lastOp = "packet"
    /\ out.unit.len > PACKET_SIZE
    /\ out.log = <<FALSE>>
    /\ ~out.raised


\* the source id and the quaternion of a transport unit: serial records are
\* all for id 0
UnitId(op, unit) == IF op = "packet" THEN unit.id ELSE 0

UnitQuat(op, unit) == IF op = "packet" THEN unit.q ELSE LineQuat(unit)

WellFormed(op, unit) ==
    IF op = "packet"
    THEN unit.len = PACKET_SIZE
    ELSE Len(unit.fields) = 4 /\ \A i \in 1..4 : unit.fields[i].num

\* a unit that is malformed, has the wrong field count or byte length, or
\* holds a quaternion of norm <= 1e-6
DecodeFailure(op, unit) == ~WellFormed(op, unit) \/ TinyNorm(UnitQuat(op, unit))

\* C12: handling a unit that fails to decode never moves the status to
\* Error, never stops the render timer or the watchdog timer, and never
\* changes a worker (no stop request) or the controller's worker reference.
C12_DecodeFailureNotAnError ==
    [][(lastOp' \in {"packet", "line"} /\ DecodeFailure(lastOp', out'.unit))
          => (/\ ~Accepted(out')
              /\ status_indicator' = "error" => status_indicator = "error"
              /\ render_timer => render_timer'
              /\ connection_timeout_timer => connection_timeout_timer'
              /\ workers' = workers
              /\ connection_worker' = connection_worker)]_vars

C12_Witness ==
    /\ lastOp = "line"
    /\ Len(out.unit.fields) = 3
    /\ out.log = <<FALSE>>
    /\ status_indicator = "ok"
    /\ render_timer
    /\ connection_timeout_timer
    /\ WorkerIsRunning
    /\ workers[connection_worker].is_running


\* C13 as stated: a watchdog check in a Connected session with a running
\* worker, made more than TIMEOUT seconds after the last valid sample, moves
\* the status to Error, whatever failing units were handled in between.
C13_StaleAgainstValidSamples ==
    [][(/\ lastOp' = "watchdog"
        /\ status_indicator = "ok"
        /\ WorkerIsRunning
        /\ since_last_valid > TIMEOUT)
          => status_indicator' = "error"]_vars

\* C13: staleness is measured against received units. Every unit handled,
\* valid or not, restarts the age the watchdog tests, and a watchdog check in
\* a Connected session with a running worker moves the status to Error
\* exactly when that age is above TIMEOUT, so it leaves a session Connected
\* whose last valid sample is older than TIMEOUT while failing units arrive.
C13_StaleAgainstReceivedUnits ==
    [][/\ lastOp' \in {"packet", "line"} => since_last_packet' = 0
       /\ (lastOp' = "watchdog" /\ status_indicator = "ok" /\ WorkerIsRunning)
             => (status_indicator' = "error" <=> since_last_packet > TIMEOUT)]_vars

C13_Witness ==
    /\ lastOp = "watchdog"
    /\ status_indicator = "ok"
    /\ connection_timeout_timer
    /\ WorkerIsRunning
    /\ since_last_valid > TIMEOUT
    /\ since_last_packet <= TIMEOUT
    /\ imu_data[0] = Normalize(Q_B)


\* the messages a worker emits when it cannot open its transport
OpenFailMsgs == {OpenFailMsg("serial"), OpenFailMsg("udp")}

\* a step in which a started worker leaves run() before its read loop
OpenFails(w) == workers[w].pc = "started" /\ workers'[w].pc = "idle"

\* C14: a worker that cannot open its transport terminates and queues its
\* failure message followed by finished; handling that message shows it
\* with status Error and stops both timers; while it is shown with status
\* Error both timers are stopped; and a worker is started by the connect
\* request of the user only.
C14_OpenFailure ==
    [][/\ \A w \in WorkerIds :
             OpenFails(w)
                => (/\ ~IsRunning(workers'[w])
                    /\ queue' = queue \o <<Msg("error", 0, OpenFailMsg(workers[w].kind)),
                                            Msg("finished", 0, None)>>)
       /\ (lastOp' = "error" /\ Head(queue).data \in OpenFailMsgs)
             => (/\ status_indicator' = "error"
                 /\ info_label' = Head(queue).data
                 /\ ~render_timer'
                 /\ ~connection_timeout_timer')
       /\ (status_indicator' = "error" /\ info_label' \in OpenFailMsgs)
             => (~render_timer' /\ ~connection_timeout_timer')
       /\ (\E w \in WorkerIds : ~IsRunning(workers[w]) /\ IsRunning(workers'[w]))
             => lastOp' = "connect"]_vars

C14_Witness ==
    /\ lastOp = "error"
    /\ info_label = OpenFailMsg("udp")
    /\ status_indicator = "error"
    /\ ~render_timer
    /\ ~connection_timeout_timer
    /\ Head_is("finished")
    /\ \A w \in WorkerIds : workers[w].pc = "idle"


\* the quaternions of the units the transport can deliver for id i: those of
\* the datagrams of PACKET_SIZE bytes that carry i and, for id 0, those of
\* the records of four numeric fields
UnitQuats(i) ==
    {p.q : p \in {d \in Datagrams : d.len = PACKET_SIZE /\ d.id = i}}
    \cup (IF i = 0 THEN {LineQuat(l) : l \in {r \in Lines : WellFormed("line", r)}} ELSE {})

\* the normalised values of the single samples the decoders store for id i
SampleValues ==
    [i \in Ids |->
        {Normalize(q) : q \in {u \in UnitQuats(i) : ~SquareOverflows(u) /\ ~TinyNorm(u)}}]

\* C15: the orientation a render tick hands to the consumer of an id is, in
\* all four components, the identity or the normalised value of one single
\* sample for that id, and so is every orientation the registry holds after
\* any step, whatever the order of sample handling and render ticks.
C15_NoTearing ==
    [][/\ lastOp' = "render"
          => \A i \in Ids :
                 out'.calls[i] # <<>>
                    => out'.calls[i][1].quat \in {Identity} \cup SampleValues[i]
       /\ \A i \in Ids :
             imu_data'[i] \in {None, Identity} \cup SampleValues[i]]_vars

\* a tick hands the consumers of ids 0 and 2 the samples stored for them
\* since the tick before
C15_Witness ==
    /\ lastOp = "render"
    /\ out.calls[0] = SetAndRender(Normalize(Q_B))
    /\ out.calls[2] = SetAndRender(Normalize(Q_2EPS))


\* C16: between the worker and the UI context at most one produced unit
\* waits for its handler: a unit produced while an earlier one still waits
\* replaces it instead of queueing behind it, so the units waiting do not
\* grow with the producer's rate or with the time the UI context is busy.
C16_NoBacklogGrowth == DataQueued <= 1


\* a stored orientation has unit norm to within one step 1/DEN of the
\* resolution stored orientations are kept at
UnitNorm(s) ==
    /\ (DEN - 1) * (DEN - 1) <= SumSq(s)
    /\ SumSq(s) <= (DEN + 1) * (DEN + 1)

\* C17: after a datagram of PACKET_SIZE bytes or a record of four numeric
\* fields whose quaternion has a norm above 1e-6 has been handled, the
\* registry holds for its source id an orientation of unit norm.
C17_StoredUnitNorm ==
    [][(/\ lastOp' \in {"packet", "line"}
        /\ WellFormed(lastOp', out'.unit)
        /\ ~TinyNorm(UnitQuat(lastOp', out'.unit)))
          => LET s == imu_data'[UnitId(lastOp', out'.unit)]
             IN  s # None /\ UnitNorm(s)]_vars


\* C18: a render tick makes no call on the consumer of an id for which no
\* valid sample was handled since the tick before, changes no registry
\* orientation, and with an empty dirty set calls no consumer at all.
C18_SkipsIdsWithoutNewData ==
    [][lastOp' = "render"
          => (/\ \A i \in Ids : pending[i] = None => out'.calls[i] = <<>>
              /\ imu_data' = imu_data
              /\ new_data_imu_ids = {} => out'.calls = NoCalls)]_vars

\* a tick that drew id 0 and skipped id 1, which is registered
C18_Witness ==
    /\ lastOp = "render"
    /\ out.calls[0] = SetAndRender(Normalize(Q_B))
    /\ out.calls[1] = <<>>
    /\ 1 \in vis_widgets
    /\ imu_data[1] = Identity


MarksEveryOverwrite ==
    lastOp' \in {"packet", "line"}
       => (/\ Accepted(out') => UnitId(lastOp', out'.unit) \in new_data_imu_ids'
           /\ \A i \in Ids : imu_data'[i] # imu_data[i] => i \in new_data_imu_ids')

\* the step is a render tick that handed the orientation stored for i to
\* the consumer of i and called render()
DeliveredByTick(i) == lastOp' = "render" /\ out'.calls[i] = SetAndRender(imu_data[i])

\* the step is a connect or disconnect in which clear_imu_widgets emptied
\* the registry and the dirty set
ClearedByUser(i) ==
    /\ lastOp' \in {"connect", "connect_noport", "disconnect", "test_mode"}
    /\ new_data_imu_ids' = {}
    /\ imu_data'[i] \in {None, Identity}

\* C20 as stated: a dirty mark is set on every overwrite and leaves the
\* dirty set only in a render tick that delivered the id's orientation.
C20_MarkClearedOnlyByDelivery ==
    [][/\ MarksEveryOverwrite
       /\ \A i \in Ids :
             (i \in new_data_imu_ids /\ i \notin new_data_imu_ids') => DeliveredByTick(i)]_vars

\* C20 amended: a dirty mark is set on every overwrite and leaves the dirty
\* set only in a render tick that delivered the id's orientation, or in a
\* connect or disconnect, which discards the registry together with every
\* mark; the receive handlers and all other steps remove no mark.
C20_MarkClearedByDeliveryOrReset ==
    [][/\ MarksEveryOverwrite
       /\ \A i \in Ids :
             (i \in new_data_imu_ids /\ i \notin new_data_imu_ids')
                => (DeliveredByTick(i) \/ ClearedByUser(i))]_vars

\* a disconnect has just discarded the mark of a sample for id 2 that no
\* tick had delivered
C20_Witness ==
    /\ lastOp = "disconnect"
    /\ pending[2] = Discarded
    /\ new_data_imu_ids = {}
    /\ imu_data[2] = None


\* C21: a worker on which stop() was called since it was started does not
\* have its running flag set, so that its loop ends at the next test of the
\* flag, whenever the stop() came: also between start() and the statement
\* of run() that sets the flag.
C21_StopNeverLost ==
    \A w \in WorkerIds : workers[w].stop_req => ~workers[w].is_running


\* the steps of the worker threads
WorkerOps == {"worker", "recv", "recv_empty", "recv_timeout", "recv_error", "device_lost"}

\* C22: when run() returns, on whatever path, the worker holds no open
\* transport handle, and no handler of the UI context changes a worker's
\* handle (the thread may return while the close handler waits for it).
C22_HandleClosedOnEveryExit ==
    [][\A w \in WorkerIds :
          /\ (IsRunning(workers[w]) /\ ~IsRunning(workers'[w]))
                => workers'[w].handle # "open"
          /\ lastOp' \notin WorkerOps \cup {"close"}
                => workers'[w].handle = workers[w].handle]_vars


\* the step appends an error_occurred signal to the queue
ErrorEmitted ==
    \E i \in DOMAIN queue' : i > Len(queue) /\ queue'[i].type = "error"

\* C23: when recvfrom fails with an error other than a timeout in a running
\* UDP worker, the worker emits error_occurred and leaves its loop in that
\* step (so that the controller, handling the signal, moves to Error).
C23_UdpLinkLossReported ==
    [][lastOp' = "recv_error"
          => (/\ ErrorEmitted
              /\ \E w \in WorkerIds :
                    /\ workers[w].kind = "udp"
                    /\ workers[w].pc = "loop"
                    /\ workers'[w].pc # "loop")]_vars

\* C24: every datagram recvfrom returns, a zero-length one included, puts
\* exactly one packet_received signal in the queue, and a receive timeout
\* puts nothing in it.
C24_EveryDatagramForwarded ==
    [][/\ lastOp' \in {"recv", "recv_empty"}
          => queue' = Append(queue, Msg("packet", 0, None))
       /\ lastOp' = "recv_timeout" => queue' = queue]_vars


\* C25: a serial worker that finds its port closed emits one "Device
\* disconnected." error followed by finished, has left its loop and closed
\* its port in the same step, and a record is put in the queue only by a
\* worker that is in its loop; handling the message shows it with status
\* Error and stops both timers, which stay stopped while it is shown.
C25_DeviceLossIsFatal ==
    [][/\ lastOp' = "device_lost"
          => (/\ queue' = queue \o <<Msg("error", 0, "Device disconnected."),
                                      Msg("finished", 0, None)>>
              /\ \E w \in WorkerIds :
                    /\ workers[w].kind = "serial" /\ workers[w].pc = "loop"
                    /\ workers' = [workers EXCEPT ![w] = IdleWorker])
       /\ DataQueued' > DataQueued
          => \E w \in WorkerIds : workers[w].pc = "loop" /\ workers'[w].pc = "loop"
       /\ (lastOp' = "error" /\ Head(queue).data = "Device disconnected.")
          => (/\ status_indicator' = "error"
              /\ info_label' = "Device disconnected."
              /\ ~render_timer'
              /\ ~connection_timeout_timer')
       /\ (status_indicator' = "error" /\ info_label' = "Device disconnected.")
          => (~render_timer' /\ ~connection_timeout_timer')]_vars

C25_Witness ==
    /\ lastOp = "error"
    /\ info_label = "Device disconnected."
    /\ status_indicator = "error"
    /\ Head_is("finished")
    /\ Len(queue) = 1
    /\ \A w \in WorkerIds : workers[w].pc = "idle"
    /\ imu_data[0] = Normalize(Q_B)

\* C26: while the window is open a close request can always be handled to
\* its end, whatever the worker is doing; the handler stops both timers,
\* requests the stop of a running worker, spends at most the timeout of
\* stop() plus CLOSE_WAIT in wait(), and accepts the event whether or not
\* the thread has returned; after that no handler runs any more.
C26_CloseAlwaysCompletes ==
    /\ [](Alive => ENABLED closeEvent)
    /\ [][/\ lastOp' = "close"
             => (/\ ~render_timer'
                 /\ ~connection_timeout_timer'
                 /\ out'.wait <= UDP_STOP_WAIT + CLOSE_WAIT
                 /\ ~WorkerIsRunning => out'.wait = 0
                 /\ WorkerIsRunning
                    => (\/ ~IsRunning(workers'[connection_worker])
                        \/ workers'[connection_worker].stop_req))
          /\ lastOp = "close" => UNCHANGED vars]_vars

\* the close event was accepted while the worker thread, asked to stop, is
\* still running with its flag set again: it is left behind
C26_Witness ==
    /\ lastOp = "close"
    /\ WorkerIsRunning
    /\ workers[connection_worker].stop_req
    /\ out.wait = UDP_STOP_WAIT + CLOSE_WAIT
    /\ ~render_timer
    /\ ~connection_timeout_timer

\* the operations of the UI context in which stop() may be called, and connect
UiLifecycleOps == {"connect", "connect_noport", "disconnect", "error", "watchdog", "test_mode"}

\* a step of the worker thread changes nothing of the registry, the dirty
\* set or the widgets' state
WorkerLeavesUiAlone ==
    lastOp' \in WorkerOps => (out'.wait = 0 /\ UNCHANGED <<uiVars, regVars>>)

\* C27 as stated: a step of the worker changes no registry or UI state, and
\* no connect, disconnect, error handling, watchdog check or test-mode
\* toggle spends any time waiting for the worker thread.
C27_UiNeverWaits ==
    [][/\ WorkerLeavesUiAlone
       /\ lastOp' \in UiLifecycleOps => out'.wait = 0]_vars

\* C27 amended: a step of the worker changes no registry or UI state; a
\* connect never waits for the worker; a disconnect, error handling,
\* watchdog check or test-mode toggle waits for the worker exactly when it
\* calls stop() on a running thread, and then for at most the timeout of
\* that stop(): SERIAL_STOP_WAIT for a serial worker, UDP_STOP_WAIT for a UDP
\* worker.
C27_UiWaitsOnlyBounded ==
    [][/\ WorkerLeavesUiAlone
       /\ lastOp' \in {"connect", "connect_noport"} => out'.wait = 0
       /\ lastOp' \in UiLifecycleOps
          => (/\ out'.wait \in {0, SERIAL_STOP_WAIT, UDP_STOP_WAIT}
              /\ out'.wait # 0
                 => (/\ WorkerIsRunning
                     /\ out'.wait = StopWait(workers[connection_worker])
                     /\ workers'[connection_worker].stop_req))]_vars

\* the watchdog fired on a running UDP worker and spent its stop() in wait()
C27_Witness ==
    /\ lastOp = "watchdog"
    /\ out.wait = UDP_STOP_WAIT
    /\ status_indicator = "error"
    /\ info_label = "Connection timed out"

\* the handler stored the unit it was given: the unit's id is dirty and its
\* registry entry holds the normalised quaternion of the unit
UnitStored ==
    /\ WellFormed(lastOp', out'.unit)
    /\ ~SquareOverflows(UnitQuat(lastOp', out'.unit))
    /\ ~TinyNorm(UnitQuat(lastOp', out'.unit))
    /\ UnitId(lastOp', out'.unit) \in new_data_imu_ids'
    /\ imu_data'[UnitId(lastOp', out'.unit)] = Normalize(UnitQuat(lastOp', out'.unit))

\* C28: every unit handed to handle_received_packet or handle_received_line
\* produces exactly one log entry, and the entry's parsed flag is true
\* exactly when the unit updated the registry and marked its id dirty.
C28_OneLogEntryPerUnit ==
    [][lastOp' \in {"packet", "line"}
          => (/\ Len(out'.log) = 1
              /\ out'.log[1] => UnitStored
              /\ ~out'.log[1] => UNCHANGED regVars)]_vars

\* the operations that assign self.last_packet_timestamp
StampOps == {"packet", "line", "connect"}

\* C29: handling a transport unit, whether or not it decodes, and a connect
\* that starts a worker set the last-sample timestamp to the current time;
\* no other handler or worker step assigns it: its age changes otherwise
\* only by time passing.
C29_TimestampWriters ==
    [][/\ lastOp' \in StampOps => since_last_packet' = 0
       /\ lastOp' = "clock" => since_last_packet' = since_last_packet + 1
       /\ lastOp' \notin StampOps \cup {"clock"} => since_last_packet' = since_last_packet]_vars

\* a unit that failed to decode was handled two seconds after the previous
\* one and the age is zero again
C29_Witness ==
    /\ lastOp = "line"
    /\ out.log = <<FALSE>>
    /\ since_last_packet = 0
    /\ since_last_valid = TIMEOUT
    /\ WorkerIsRunning

\* what clear_imu_widgets leaves: no registry entry, no consumer, no display
\* slot and no dirty mark
RegistryEmpty ==
    /\ \A i \in Ids : imu_data[i] = None
    /\ vis_widgets = {}
    /\ vis_panels = {}
    /\ new_data_imu_ids = {}

\* C30: a user disconnect leaves the registry, the consumer and display-slot
\* maps and the dirty set empty, and once they are empty after a disconnect
\* no step other than a connect request makes any of them non-empty, the
\* handling of samples the stopping worker had already emitted included.
C30_RegistryStaysEmpty ==
    [][/\ lastOp' = "disconnect" => RegistryEmpty'
       /\ (after_disconnect /\ RegistryEmpty /\ lastOp' \notin {"connect", "connect_noport"})
          => RegistryEmpty']_vars

\* the source ids that have a registry entry
RegisteredIds == {i \in Ids : imu_data[i] # None}

\* C31: in every reachable state the registry, the consumer map and the
\* panel map hold the same set of source ids, and every dirty id is one of
\* them.
C31_MapsShareTheirKeys ==
    /\ vis_widgets = RegisteredIds
    /\ vis_panels = RegisteredIds
    /\ new_data_imu_ids \subseteq RegisteredIds

\* an id above the configured count was registered by its first valid
\* sample and is dirty, next to the ids registered by the connect
C31_Witness ==
    /\ lastOp = "packet"
    /\ RegisteredIds = Ids
    /\ vis_panels = Ids
    /\ MaxId \in new_data_imu_ids
    /\ MaxId >= imu_count_spinbox
    /\ 0 \notin new_data_imu_ids

\* C32: in every reachable state in which the render timer or the watchdog
\* timer is active, the controller holds a worker reference and the status
\* is Connecting or Connected.
C32_TimersOnlyInSession ==
    (render_timer \/ connection_timeout_timer)
        => (connection_worker # 0 /\ status_indicator \in {"connecting", "ok"})

\* the operations that end the wait of a Connecting session as C33 allows:
\* a received unit, a user action, a transport error
EndsConnecting == UserOps \cup {"packet", "line", "error"}

\* C33: while the status is Connecting and no signal is waiting to be
\* handled, a watchdog check changes nothing (no timeout fires); and in a
\* session the user has not disconnected, the status leaves Connecting only
\* in the handler of a received unit, of a user action or of a transport
\* error.
C33_ConnectingUntilDataUserOrError ==
    [][/\ (lastOp' = "watchdog" /\ status_indicator = "connecting" /\ queue = <<>>)
          => UNCHANGED <<status_indicator, info_label, render_timer,
                         connection_timeout_timer, workers>>
       /\ (status_indicator = "connecting" /\ ~after_disconnect
                /\ status_indicator' # "connecting")
          => lastOp' \in EndsConnecting]_vars

\* the step removes a registry entry, a consumer or a display slot
RegistryShrinks ==
    \/ \E i \in Ids : imu_data[i] # None /\ imu_data'[i] = None
    \/ ~(vis_widgets \subseteq vis_widgets')
    \/ ~(vis_panels \subseteq vis_panels')

\* C34: handling a transport error, a watchdog check (firing or not) and the
\* worker-finished bookkeeping leave the registry, the consumers, the
\* display slots, every stored orientation and the dirty set unchanged; an
\* entry, a consumer or a display slot is removed only by a connect or a
\* disconnect of the user (toggle_connection, also when the test-mode toggle
\* calls it).
C34_ErrorKeepsRegistry ==
    [][/\ lastOp' \in {"error", "watchdog", "finished"} => UNCHANGED regVars
       /\ RegistryShrinks
          => lastOp' \in {"connect", "connect_noport", "disconnect", "test_mode"}]_vars

\* the watchdog fired and the sample stored before it is still in the
\* registry, with every consumer
C34_Witness ==
    /\ lastOp = "watchdog"
    /\ status_indicator = "error"
    /\ info_label = "Connection timed out"
    /\ imu_data[0] = Normalize(Q_B)
    /\ imu_data[1] = Identity
    /\ vis_widgets = {0, 1}
    /\ vis_panels = {0, 1}

\* no session is open: the controller holds no worker, no worker thread is
\* running and no finished signal is waiting for its bookkeeping
NoSession == connection_worker = 0 /\ Unfinished = 0

\* C35: whenever no session is open, the IMU-count spin box is enabled and,
\* if test mode is off, the serial controls are enabled.
C35_ControlsRestored ==
    NoSession => (spinbox_enabled /\ (~test_mode_check => serial_controls_enabled))

\* C36: a connect request in serial mode with no port selected never takes
\* the path that starts a worker; it leaves every worker, the worker
\* reference, both timers and the last-sample timestamp as they were, shows
\* "No port selected!" with status Error and enables the IMU-count spin box.
C36_NoPortNoSession ==
    [][/\ lastOp' = "connect" => (test_mode_check \/ port_combo # "")
       /\ lastOp' = "connect_noport"
          => (/\ ~test_mode_check
              /\ port_combo = ""
              /\ workers' = workers
              /\ connection_worker' = connection_worker
              /\ render_timer' = render_timer
              /\ connection_timeout_timer' = connection_timeout_timer
              /\ since_last_packet' = since_last_packet
              /\ status_indicator' = "error"
              /\ info_label' = "No port selected!"
              /\ spinbox_enabled')]_vars

\* the attempt was made while the controller still referred to a worker
\* that had ended: the reference is kept
C36_Witness ==
    /\ lastOp = "connect_noport"
    /\ info_label = "No port selected!"
    /\ status_indicator = "error"
    /\ spinbox_enabled
    /\ connection_worker # 0
    /\ ~render_timer

\* range(num_imus) for the value the spin box shows
ConfiguredIds == 0..(imu_count_spinbox - 1)

\* C37: the step of a connect request leaves the registry, the consumer map
\* and the panel map with exactly the ids below the configured count, each
\* registry entry the identity orientation, and the dirty set empty; an id
\* becomes dirty only in the receive handler of an accepted unit of that id;
\* and a render tick calls the consumers of ids that were dirty only.
C37_ConnectSeedsRegistry ==
    [][/\ lastOp' \in {"connect", "connect_noport"}
          => (/\ imu_data' = [i \in Ids |-> IF i \in ConfiguredIds THEN Identity ELSE None]
              /\ vis_widgets' = ConfiguredIds
              /\ vis_panels' = ConfiguredIds
              /\ new_data_imu_ids' = {})
       /\ \A i \in Ids :
             (i \notin new_data_imu_ids /\ i \in new_data_imu_ids')
                => (/\ lastOp' \in {"packet", "line"}
                    /\ Accepted(out')
                    /\ UnitId(lastOp', out'.unit) = i)
       /\ lastOp' = "render"
          => \A i \in Ids : out'.calls[i] # <<>> => i \in new_data_imu_ids]_vars

\* a connect made after the user set the count to its largest value, in a
\* session that follows one whose sample was discarded: every id of the
\* model is registered with the identity and none is dirty
C37_Witness ==
    /\ lastOp = "connect"
    /\ imu_count_spinbox = MaxId + 1
    /\ RegisteredIds = Ids
    /\ \A i \in Ids : imu_data[i] = Identity
    /\ new_data_imu_ids = {}
    /\ \E i \in Ids : pending[i] = Discarded

=============================================================================
